---- MODULE Spec2Model ----
(***************************************************************************)
(* Weather acquisition, caching and redraw decision of the plane tracker:  *)
(*   utilities/temperature.py   rate limiter, realtime fetch, forecast     *)
(*   scenes/temperature.py      module-level cached forecast fetch         *)
(*   scenes/daysforecast.py     DaysForecastScene.day, the per-second tick *)
(* Time is the simulated wall clock in whole seconds; a call that arrives  *)
(* less than a second after another one arrives in the same second.        *)
(* time.sleep(n) advances the clock by n; a network request takes no time. *)
(***************************************************************************)
EXTENDS Integers, Sequences, FiniteSets, TLC

VARIABLES
    now,        \* datetime.now(): seconds since process start (start = 00:00:00)
    rl,         \* _last_api_call_time, _api_calls_this_hour, _hour_start_time
    tempCache,  \* utilities/temperature.py: _cached_temp_data, _last_temp_fetch_time
    fcCache,    \* scenes/temperature.py: _cached_forecast, _last_forecast_time
    scene,      \* the DaysForecastScene object's fields
    apiKey,     \* TOMORROW_API_KEY is configured (None otherwise, line 37)
    hist,       \* history of what happened so far (not program state)
    advances,   \* number of clock advances between operations (bounded)
    ret         \* what the last operation returned and did (not program state)

vars == <<now, rl, tempCache, fcCache, scene, apiKey, hist, advances, ret>>

(***************************** bounds **************************************)
MaxTime == 7300          \* no operation starts after this time (seconds)
MaxAdvances == 2         \* clock advances between operations per behaviour
MaxTicks == 3            \* ticks of the scene per behaviour
MaxCachedCalls == 3      \* calls of scenes.temperature.grab_forecast per behaviour

(************************* program constants *******************************)
QUOTA == 25
WINDOW == 3600
MIN_DELAY == 1
SPACING_SLEEP == 1
TEMP_CACHE_DURATION == 300
TEMP_MAX_RETRIES == 1
FORECAST_MAX_RETRIES == 3
RETRY_DELAY == 2
CACHE_DURATION == 3600         \* scenes/temperature.py, timedelta(hours=1)
SCENE_TEMP_INTERVAL == 300     \* daysforecast.py line 81
SECONDS_PER_DAY == 86400
SECONDS_PER_HOUR == 3600
\* config.NIGHT_START = "01:00", config.NIGHT_END = "00:05", as seconds of the day
NIGHT_START == 3600
NIGHT_END == 300

NoTime == -1          \* None, for a timestamp
NoHour == -1          \* None, for self._last_hour
NoVal == -1000        \* None, for a temperature or a humidity
NoData == <<>>        \* None, for a (temperature, humidity) tuple
NoForecast == <<>>    \* None, for a forecast (a non-empty list otherwise)

Min(a, b) == IF a < b THEN a ELSE b

(************************* the rate limiter ********************************)
\* line 56: the window is (re)started by this call
WindowExpired(r, t) == r.start = NoTime \/ t - r.start >= WINDOW

\* the counter is reset and the start of the window is not moved
ResetWindowKeepsStart(r, t) ==
    IF WindowExpired(r, t) THEN [r EXCEPT !.calls = 0] ELSE r

\* lines 56-58: the lazy reset
ResetWindow(r, t) ==
    IF WindowExpired(r, t) THEN [r EXCEPT !.start = t, !.calls = 0] ELSE r

\* the limit is tested with > for >=
LimitReachedAbove(r) == r.calls > QUOTA

\* line 61: the hourly limit is hit
LimitReached(r) == r.calls >= QUOTA

\* line 67: the previous call was less than a second ago
TooSoon(r, t) == r.last # NoTime /\ t - r.last < MIN_DELAY

\* the slot is counted and the time of the call is not kept
TakeSlotKeepsLast(r, t) == [r EXCEPT !.calls = @ + 1]

\* lines 70-71: the slot taken; _last_api_call_time is the time of the call,
\* read at line 53 before any sleep
TakeSlot(r, t) == [r EXCEPT !.last = t, !.calls = @ + 1]

\* The hour observed by the history: [ObservedFrom, ObservedFrom + WINDOW)
ObservedFrom == WINDOW \div 2

\* history: a slot was handed to the caller at time t
Granted(h, t) ==
    [lastRelease |-> t,
     minGap      |-> IF h.lastRelease = NoTime THEN h.minGap
                     ELSE Min(h.minGap, t - h.lastRelease),
     hourGrants  |-> IF t >= ObservedFrom /\ t < ObservedFrom + WINDOW
                     THEN h.hourGrants + 1 ELSE h.hourGrants,
     fcAt |-> h.fcAt, ticks |-> h.ticks, clean |-> h.clean,
     cachedCalls |-> h.cachedCalls, owed |-> h.owed]

\* _check_rate_limit() called in world w = [now, rl, hist]
CheckRateLimit(w) ==
    LET t  == w.now
        r1 == ResetWindow(w.rl, t)
    IN  IF LimitReached(r1)
        THEN [now |-> t, rl |-> r1, hist |-> w.hist, ok |-> FALSE, slept |-> FALSE]
        ELSE LET slept    == TooSoon(r1, t)
                 released == IF slept THEN t + SPACING_SLEEP ELSE t
             IN  [now   |-> released,
                  rl    |-> TakeSlot(r1, t),
                  hist  |-> Granted(w.hist, released),
                  ok    |-> TRUE,
                  slept |-> slept]

World == [now |-> now, rl |-> rl, hist |-> hist]

(************************* what a fetch did ********************************)
\* The record of one fetch: the value the caller's cache held on entry and
\* its age, the value returned, and the permit() calls, network requests and
\* back-off sleeps made, in the order of the code.
NoObs ==
    [called |-> FALSE, held |-> <<>>, age |-> NoTime, value |-> <<>>,
     permits |-> 0, refused |-> FALSE, net |-> 0, backoffs |-> 0,
     transport |-> 0, fetched |-> FALSE, response |-> <<>>, raised |-> FALSE,
     events |-> <<>>]

StartObs(held, at, t) ==
    [NoObs EXCEPT !.called = TRUE, !.held = held,
                  !.age = IF at = NoTime THEN NoTime ELSE t - at]

Done(w, cache, value, obs) ==
    [now |-> w.now, rl |-> w.rl, hist |-> w.hist, cache |-> cache,
     value |-> value, obs |-> [obs EXCEPT !.value = value]]

After(c) == [now |-> c.now, rl |-> c.rl, hist |-> c.hist]

\* one more step of the fetch, in the order of the code
Did(obs, event) == [obs EXCEPT !.events = Append(@, event)]

\* an exception that no handler of the fetch catches leaves it: nothing is
\* returned and the cache is as it was
Raised(w, cache, obs) == Done(w, cache, <<>>, [obs EXCEPT !.raised = TRUE])

(************************* network outcomes ********************************)
Transport == [kind |-> "transport", body |-> <<>>]   \* RequestException
Malformed == [kind |-> "malformed", body |-> <<>>]   \* ValueError / KeyError
Ok(body)  == [kind |-> "ok", body |-> body]
\* a JSON body whose "data" member is null: .get() on None, AttributeError
NullData  == [kind |-> "nulldata", body |-> <<>>]

\* data.values of the realtime endpoint; NoVal is an absent field
RealtimeBodies ==
    {[temperature |-> 21, humidity |-> 40], [temperature |-> NoVal, humidity |-> 55]}

Interval(day, lo, hi) ==
    [startTime |-> day,
     values |-> [temperatureMin |-> lo, temperatureMax |-> hi,
                 weatherCodeFullDay |-> 1000]]

\* data.timelines[0].intervals of the timelines endpoint
\* the second day of the last one comes without temperatureMax
ForecastBodies ==
    {<<Interval(1, 3, 9), Interval(2, 4, 8)>>, <<Interval(2, 5, 11)>>,
     <<Interval(1, 3, 9), Interval(2, 4, NoVal)>>}

RealtimeFailures == {Transport, Malformed}
RealtimeOutcomes == RealtimeFailures \cup {Ok(b) : b \in RealtimeBodies} \cup {NullData}
ForecastOutcomes == {Transport, Malformed, NullData} \cup {Ok(b) : b \in ForecastBodies}

\* the fetch ends with this response: a value is returned or an error escapes
Final(out) == out.kind \in {"ok", "nulldata"}

\* what the successive rounds of one forecast fetch meet; the rounds after
\* the final response are never run, so one script stands for them
ForecastScripts ==
    {outs \in [1..FORECAST_MAX_RETRIES -> ForecastOutcomes] :
        \A i, j \in 1..FORECAST_MAX_RETRIES :
            i < j /\ Final(outs[i]) => outs[j] = Transport}

\* without an API key the server turns every request down (HTTPError, a
\* RequestException, from raise_for_status)
Unauthorized == [i \in 1..FORECAST_MAX_RETRIES |-> Transport]

(****************** utilities/temperature.py: realtime *********************)
\* lines 80-81: the cached reading is still good
IsFreshTemp(tc, t) ==
    tc.data # NoData /\ tc.at # NoTime /\ t - tc.at < TEMP_CACHE_DURATION

\* lines 92 and 132: the cached tuple, else (None, None)
CachedOrNone(tc) == IF tc.data # NoData THEN tc.data ELSE <<NoVal, NoVal>>

\* lines 106-116: an absent field reads as 0
ParseRealtime(body) ==
    <<IF body.temperature = NoVal THEN 0 ELSE body.temperature,
      IF body.humidity = NoVal THEN 0 ELSE body.humidity>>

RECURSIVE TempRounds(_, _, _, _, _, _)
RECURSIVE ForecastRounds(_, _, _, _)

\* a refusal is handled like a failed request: back off and go round again
TempRefusedRetried(w, tc, t0, retries, outs, obs) ==
    TempRounds([w EXCEPT !.now = @ + RETRY_DELAY], tc, t0, retries + 1, outs,
               Did([obs EXCEPT !.refused = TRUE, !.backoffs = @ + 1], "backoff"))

\* lines 90-92: permit() refused, the fetch is given up at once
TempRefused(w, tc, t0, retries, outs, obs) ==
    Done(w, tc, CachedOrNone(tc), [obs EXCEPT !.refused = TRUE])

\* lines 87-132: the retry loop; t0 is `now` of line 79
TempRounds(w, tc, t0, retries, outs, obs) ==
    IF retries >= TEMP_MAX_RETRIES
    THEN Done(w, tc, CachedOrNone(tc), obs)
    ELSE LET c  == CheckRateLimit(w)
             o1 == Did([obs EXCEPT !.permits = @ + 1],
                       IF c.ok THEN "grant" ELSE "refuse")
         IN  IF ~c.ok
             THEN TempRefused(After(c), tc, t0, retries, outs, o1)
             ELSE LET out == outs[retries + 1]
                      o2  == Did([o1 EXCEPT !.net = @ + 1], "request")
                  IN  IF out.kind = "ok"
                      THEN LET v == ParseRealtime(out.body)
                           IN  Done(After(c), [data |-> v, at |-> t0], v,
                                    [o2 EXCEPT !.fetched = TRUE,
                                               !.response = out.body])
                      ELSE IF out.kind = "nulldata"
                      THEN Raised(After(c), tc, o2)
                      ELSE LET more == retries + 1 < TEMP_MAX_RETRIES
                               w2 == [After(c) EXCEPT
                                        !.now = IF more THEN @ + RETRY_DELAY ELSE @]
                               o3 == [o2 EXCEPT
                                        !.transport = IF out = Transport THEN @ + 1 ELSE @,
                                        !.backoffs = IF more THEN @ + 1 ELSE @]
                               o4 == IF more THEN Did(o3, "backoff") ELSE o3
                           IN  TempRounds(w2, tc, t0, retries + 1, outs, o4)

\* grab_temperature_and_humidity(), lines 75-132
GrabTemperatureAndHumidity(w, tc, outs) ==
    LET obs == StartObs(tc.data, tc.at, w.now)
    IN  IF IsFreshTemp(tc, w.now)
        THEN Done(w, tc, tc.data, obs)
        ELSE TempRounds(w, tc, w.now, 0, outs, obs)

(****************** utilities/temperature.py: forecast *********************)
\* a refusal is handled like a failed request: back off and try again
ForecastRefusedRetried(w, retries, outs, obs) ==
    ForecastRounds([w EXCEPT !.now = @ + RETRY_DELAY], retries + 1, outs,
                   Did([obs EXCEPT !.refused = TRUE, !.backoffs = @ + 1], "backoff"))

\* lines 140-142: permit() refused, the fetch is given up at once
ForecastRefused(w, retries, outs, obs) ==
    Done(w, NoForecast, NoForecast, [obs EXCEPT !.refused = TRUE])

\* lines 137-200: the retry loop; it keeps no cache
ForecastRounds(w, retries, outs, obs) ==
    IF retries >= FORECAST_MAX_RETRIES
    THEN Done(w, NoForecast, NoForecast, obs)
    ELSE LET c  == CheckRateLimit(w)
             o1 == Did([obs EXCEPT !.permits = @ + 1],
                       IF c.ok THEN "grant" ELSE "refuse")
         IN  IF ~c.ok
             THEN ForecastRefused(After(c), retries, outs, o1)
             ELSE LET out == outs[retries + 1]
                      o2  == Did([o1 EXCEPT !.net = @ + 1], "request")
                  IN  IF out.kind = "ok"
                      THEN Done(After(c), NoForecast, out.body,
                                [o2 EXCEPT !.fetched = TRUE, !.response = out.body])
                      ELSE IF out.kind = "nulldata"
                      THEN Raised(After(c), NoForecast, o2)
                      ELSE LET more == retries + 1 < FORECAST_MAX_RETRIES
                               w2 == [After(c) EXCEPT
                                        !.now = IF more THEN @ + RETRY_DELAY ELSE @]
                               o3 == [o2 EXCEPT
                                        !.transport = IF out = Transport THEN @ + 1 ELSE @,
                                        !.backoffs = IF more THEN @ + 1 ELSE @]
                               o4 == IF more THEN Did(o3, "backoff") ELSE o3
                           IN  ForecastRounds(w2, retries + 1, outs, o4)

\* grab_forecast(), lines 135-200
GrabForecast(w, outs) == ForecastRounds(w, 0, outs, StartObs(NoForecast, NoTime, w.now))

(****************** scenes/temperature.py: forecast ************************)
\* line 43: the module's forecast is still good
IsFreshForecast(fc, t) ==
    fc.data # NoForecast /\ fc.at # NoTime /\ t - fc.at < CACHE_DURATION

\* grab_forecast(), lines 38-95: one request, not rate limited; a failure
\* sleeps and returns the cached forecast, however old
SceneGrabForecast(w, fc, out) ==
    LET obs == StartObs(fc.data, fc.at, w.now)
    IN  IF IsFreshForecast(fc, w.now)
        THEN Done(w, fc, fc.data, obs)
        ELSE LET o1 == Did([obs EXCEPT !.net = @ + 1], "request")
             IN  IF out.kind = "ok"
                 THEN Done(w, [data |-> out.body, at |-> w.now], out.body,
                           [o1 EXCEPT !.fetched = TRUE, !.response = out.body])
                 ELSE IF out.kind = "nulldata"
                 THEN Raised(w, fc, o1)
                 ELSE Done([w EXCEPT !.now = @ + RETRY_DELAY], fc, fc.data,
                           Did([o1 EXCEPT !.backoffs = @ + 1,
                                          !.transport = IF out = Transport THEN @ + 1 ELSE @],
                               "backoff"))

(****************** scenes/daysforecast.py: the tick ***********************)
TimeOfDay(t) == t % SECONDS_PER_DAY
HourOf(t) == TimeOfDay(t) \div SECONDS_PER_HOUR

\* timedelta.seconds of b - a
DeltaSeconds(a, b) == (b - a) % SECONDS_PER_DAY

\* lines 48-54
NewScene ==
    [redraw_forecast |-> TRUE, last_hour |-> NoHour, cached_forecast |-> NoForecast,
     last_temp_fetch |-> NoTime, cached_current_temp |-> NoVal]

\* only the start of the night is looked for
AtNightStartOnly(t) == TimeOfDay(t) = NIGHT_START

\* line 61
AtNightBoundary(t) == TimeOfDay(t) \in {NIGHT_START, NIGHT_END}

\* line 65: flights are overhead
HasFlightData(n) == n > 0

\* the flag is read negated
MustRedrawInverted(s, hour) == s.last_hour # hour \/ ~s.redraw_forecast

\* line 70
MustRedraw(s, hour) == s.last_hour # hour \/ s.redraw_forecast

\* line 76: the held forecast is reused
UseHeldForecast(s) == s.cached_forecast # NoForecast /\ ~s.redraw_forecast

\* the forecast is kept and the forced redraw is not cleared
RedrawnKeepsFlag(s, hour, f) ==
    [s EXCEPT !.last_hour = hour, !.cached_forecast = f]

\* lines 73-78: the scene after the forecast f was taken for a redraw
Redrawn(s, hour, f) ==
    [s EXCEPT !.last_hour = hour, !.cached_forecast = f, !.redraw_forecast = FALSE]

\* line 81: the current temperature is fetched again
SceneTempDue(s, t) ==
    s.last_temp_fetch = NoTime \/ DeltaSeconds(s.last_temp_fetch, t) > SCENE_TEMP_INTERVAL

\* lines 99-106: every day of the forecast that is drawn is indexed for its
\* temperatureMin and temperatureMax; an absent key is a KeyError
Drawable(f) ==
    \A i \in 1..Len(f) :
        f[i].values.temperatureMin # NoVal /\ f[i].values.temperatureMax # NoVal

NoTick ==
    [at |-> NoTime, data |-> 0, first |-> FALSE, cleanBefore |-> FALSE,
     tempHeld |-> NoVal, tempAge |-> NoTime, fcHeld |-> NoForecast,
     fcAge |-> NoTime, lastHour |-> NoHour, forced |-> FALSE, owed |-> 0,
     redraw |-> FALSE, raised |-> FALSE]

TickResult(w, tc, s, tick, fobs, tobs) ==
    [now |-> w.now, rl |-> w.rl, hist |-> w.hist, tc |-> tc, scene |-> s,
     tick |-> tick, fc |-> fobs, temp |-> tobs]

\* DaysForecastScene.day(), lines 57-128, with n = len(self._data). `now` of
\* line 58 is the time on entry, cut to the second. An exception that leaves
\* a fetch or the drawing leaves day() too, with the assignments made so far.
DayTick(w, tc, s, n, fouts, touts) ==
    LET t    == w.now
        tick == [at |-> t, data |-> n, first |-> w.hist.ticks = 0,
                 cleanBefore |-> w.hist.clean,
                 tempHeld |-> s.cached_current_temp,
                 tempAge |-> IF s.last_temp_fetch = NoTime THEN NoTime
                             ELSE t - s.last_temp_fetch,
                 fcHeld |-> s.cached_forecast,
                 fcAge |-> IF w.hist.fcAt = NoTime THEN NoTime
                           ELSE t - w.hist.fcAt,
                 lastHour |-> s.last_hour, forced |-> s.redraw_forecast,
                 owed |-> w.hist.owed,
                 redraw |-> FALSE, raised |-> FALSE]
        \* history: the ticks in a row, up to this one, that had a reason to
        \* redraw and drew nothing; none after a tick that redraws or has no
        \* reason to
        w0   == [w EXCEPT !.hist.ticks = @ + 1, !.hist.owed = 0]
    IN  IF AtNightBoundary(t) \/ HasFlightData(n)
        THEN TickResult([w0 EXCEPT !.hist.clean = FALSE,
                                   !.hist.owed = w.hist.owed + 1], tc,
                        [s EXCEPT !.redraw_forecast = TRUE], tick, NoObs, NoObs)
        ELSE IF ~MustRedraw(s, HourOf(t))
        THEN TickResult(w0, tc, s, tick, NoObs, NoObs)
        ELSE LET f    == IF UseHeldForecast(s)
                         THEN Done(w0, NoForecast, s.cached_forecast, NoObs)
                         ELSE GrabForecast(w0, fouts)
                 fobs == IF f.obs.called
                         THEN [f.obs EXCEPT
                                 !.held = s.cached_forecast,
                                 !.age = IF w.hist.fcAt = NoTime THEN NoTime
                                         ELSE t - w.hist.fcAt]
                         ELSE NoObs
                 fcAt == IF ~f.obs.called THEN w.hist.fcAt
                         ELSE IF f.value = NoForecast THEN NoTime ELSE t
                 wf   == [After(f) EXCEPT !.hist.fcAt = fcAt, !.hist.clean = TRUE]
                 s1   == Redrawn(s, HourOf(t), f.value)
                 due  == SceneTempDue(s, t)
                 g    == IF due
                         THEN GrabTemperatureAndHumidity(wf, tc, touts)
                         ELSE Done(wf, tc, NoData, NoObs)
                 s2   == IF due /\ ~g.obs.raised
                         THEN [s1 EXCEPT !.cached_current_temp = g.value[1],
                                         !.last_temp_fetch = t]
                         ELSE s1
             IN  IF f.obs.raised
                 THEN \* line 76 raised: lines 77-78 are not run
                      TickResult(After(f), tc, [s EXCEPT !.last_hour = HourOf(t)],
                                 [tick EXCEPT !.redraw = TRUE, !.raised = TRUE],
                                 fobs, NoObs)
                 ELSE TickResult(After(g), g.cache, s2,
                                 [tick EXCEPT !.redraw = TRUE,
                                              !.raised = g.obs.raised
                                                         \/ ~Drawable(f.value)],
                                 fobs, g.obs)

(****************************** actions ************************************)
Result(op, ok, slept, temp, fc, tick) ==
    [op |-> op, ok |-> ok, slept |-> slept, temp |-> temp, fc |-> fc, tick |-> tick]

Init ==
    /\ now = 0
    /\ rl = [last |-> NoTime, calls |-> 0, start |-> NoTime]
    /\ tempCache = [data |-> NoData, at |-> NoTime]
    /\ fcCache = [data |-> NoForecast, at |-> NoTime]
    /\ scene = NewScene
    /\ apiKey \in BOOLEAN
    /\ hist = [lastRelease |-> NoTime, minGap |-> MIN_DELAY, hourGrants |-> 0,
               fcAt |-> NoTime, ticks |-> 0, clean |-> FALSE,
               cachedCalls |-> 0, owed |-> 0]
    /\ advances = 0
    /\ ret = Result("init", FALSE, FALSE, NoObs, NoObs, NoTick)

\* the responses a request can meet: with the API key configured any of
\* `outcomes`; without it (line 37, "apikey": None) the server refuses
Answers(outcomes) == IF apiKey THEN outcomes ELSE {Transport}
AnswerScripts(scripts) == IF apiKey THEN scripts ELSE {Unauthorized}

\* the wall clock moves on by d between two operations, up to the horizon
Elapse(d, horizon) ==
    /\ now + d <= horizon
    /\ advances < MaxAdvances
    /\ now' = now + d
    /\ advances' = advances + 1
    /\ ret' = Result("elapse", FALSE, FALSE, NoObs, NoObs, NoTick)
    /\ UNCHANGED <<rl, tempCache, fcCache, scene, apiKey, hist>>

\* a caller asks the rate limiter for a slot
Permit(horizon) ==
    /\ now <= horizon
    /\ \E c \in {CheckRateLimit(World)} :
           /\ now' = c.now
           /\ rl' = c.rl
           /\ hist' = c.hist
           /\ ret' = Result("permit", c.ok, c.slept, NoObs, NoObs, NoTick)
    /\ UNCHANGED <<tempCache, fcCache, scene, apiKey, advances>>

\* currentConditions: grab_temperature_and_humidity() is called
CurrentConditions(horizon, outcomes) ==
    /\ now <= horizon
    /\ \E outs \in [1..TEMP_MAX_RETRIES -> Answers(outcomes)] :
         \E g \in {GrabTemperatureAndHumidity(World, tempCache, outs)} :
             /\ now' = g.now
             /\ rl' = g.rl
             /\ hist' = g.hist
             /\ tempCache' = g.cache
             /\ ret' = Result("temp", FALSE, FALSE, g.obs, NoObs, NoTick)
    /\ UNCHANGED <<fcCache, scene, apiKey, advances>>

\* forecast: utilities.temperature.grab_forecast() is called
Forecast(horizon, scripts) ==
    /\ now <= horizon
    /\ \E outs \in AnswerScripts(scripts) :
         \E g \in {GrabForecast(World, outs)} :
             /\ now' = g.now
             /\ rl' = g.rl
             /\ hist' = g.hist
             /\ ret' = Result("forecast", FALSE, FALSE, NoObs, g.obs, NoTick)
    /\ UNCHANGED <<tempCache, fcCache, scene, apiKey, advances>>

\* scenes.temperature.grab_forecast() is called
CachedForecast(horizon) ==
    /\ now <= horizon
    /\ hist.cachedCalls < MaxCachedCalls
    /\ hist' = [hist EXCEPT !.cachedCalls = @ + 1]
    /\ \E out \in Answers(ForecastOutcomes) :
         \E g \in {SceneGrabForecast(World, fcCache, out)} :
             /\ now' = g.now
             /\ fcCache' = g.cache
             /\ ret' = Result("cachedForecast", FALSE, FALSE, NoObs, g.obs, NoTick)
    /\ UNCHANGED <<rl, tempCache, scene, apiKey, advances>>

\* the animator runs DaysForecastScene.day
Day(horizon, scripts, outcomes) ==
    /\ now <= horizon
    /\ hist.ticks < MaxTicks
    /\ \E n \in {0, 1} :
       \E fouts \in AnswerScripts(scripts) :
       \E touts \in [1..TEMP_MAX_RETRIES -> Answers(outcomes)] :
         \E d \in {DayTick(World, tempCache, scene, n, fouts, touts)} :
             /\ now' = d.now
             /\ rl' = d.rl
             /\ hist' = d.hist
             /\ tempCache' = d.tc
             /\ scene' = d.scene
             /\ ret' = Result("day", FALSE, FALSE, d.temp, d.fc, d.tick)
    /\ UNCHANGED <<fcCache, apiKey, advances>>

LimiterDeltas == {1, WINDOW \div 2, WINDOW}
GatewayDeltas == {1, TEMP_CACHE_DURATION - 1}
SceneDeltas == {1, SCENE_TEMP_INTERVAL - 1, SECONDS_PER_HOUR}

NextLimiter ==
    \/ \E d \in LimiterDeltas : Elapse(d, MaxTime)
    \/ Permit(MaxTime)

\* the responses the gateway's forecast fetches meet: one good body
GatewayScripts ==
    {outs \in ForecastScripts :
        \A i \in 1..FORECAST_MAX_RETRIES :
            outs[i].kind = "ok" => outs[i] = Ok(<<Interval(2, 5, 11)>>)}

NextGateway ==
    \/ Elapse(TEMP_CACHE_DURATION, MaxTime)
    \/ CurrentConditions(MaxTime, RealtimeFailures)
    \/ Forecast(MaxTime, GatewayScripts)

NextConditions ==
    \/ \E d \in GatewayDeltas : Elapse(d, MaxTime)
    \/ CurrentConditions(MaxTime, RealtimeOutcomes)

NextCached ==
    \/ \E d \in SceneDeltas : Elapse(d, MaxTime)
    \/ CachedForecast(MaxTime)

\* the responses the scene's fetches meet
SceneScripts ==
    {outs \in ForecastScripts :
        \/ \A i \in 1..FORECAST_MAX_RETRIES : outs[i] = Transport
        \/ Final(outs[1])
        \/ outs[1] = Malformed /\ outs[2] = Ok(<<Interval(2, 5, 11)>>)}
SceneOutcomes == {Transport, NullData, Ok([temperature |-> 21, humidity |-> 40])}

NextScene ==
    \/ \E d \in SceneDeltas : Elapse(d, MaxTime)
    \/ Day(MaxTime, SceneScripts, SceneOutcomes)

\* the whole program: every operation, in any order
Next ==
    \/ \E d \in LimiterDeltas \cup GatewayDeltas \cup SceneDeltas : Elapse(d, MaxTime)
    \/ Permit(MaxTime)
    \/ CurrentConditions(MaxTime, RealtimeOutcomes)
    \/ Forecast(MaxTime, ForecastScripts)
    \/ CachedForecast(MaxTime)
    \/ Day(MaxTime, ForecastScripts, RealtimeOutcomes)

Spec == Init /\ [][Next]_vars

\* The parts of the program, each run on its own: the rate limiter; the two
\* rate-limited fetches with the realtime endpoint failing; the realtime
\* fetch; the module-level cached forecast; the scene's tick.
SpecLimiter == Init /\ [][NextLimiter]_vars
SpecGateway == Init /\ [][NextGateway]_vars
SpecConditions == Init /\ [][NextConditions]_vars
SpecScene == Init /\ [][NextScene]_vars
SpecCached == Init /\ [][NextCached]_vars

(******************* claims about the rate limiter *************************)
\* C1: in any interval of one simulated hour at most QUOTA permit() calls
\* return true, also when the interval straddles a lazy window reset. Stated
\* for the hour that begins at ObservedFrom.
C1_QuotaInAnyHour == hist.hourGrants <= QUOTA

\* C2: any two permit() calls that return true are released to their callers
\* at least the minimum spacing apart.
C2_MinSpacing == hist.minGap >= MIN_DELAY

\* C6: permit() returns true exactly when, after the lazy window reset has
\* been applied, callsInWindow is below the quota, and false exactly when it
\* has reached the quota.
C6_PermitIffBelowQuota ==
    [][ret'.op = "permit" =>
          LET effective == IF rl.start = NoTime \/ now - rl.start >= 3600
                           THEN 0 ELSE rl.calls
          IN  /\ ret'.ok <=> effective < 25
              /\ ~ret'.ok <=> effective = 25]_vars

\* C6 witness: the quota is used up by 25 granted calls and the next call in
\* the same window has been refused.
C6_Witness ==
    ret.op = "permit" /\ ~ret.ok /\ rl.calls = 25 /\ now - rl.start < 3600

\* C7 as stated: a refused permit() leaves the rate window alone and does not
\* block; a granted permit() increases callsInWindow by exactly 1 and sets
\* lastCallTime.
C7_GrantAddsOne ==
    [][ret'.op = "permit" =>
          IF ret'.ok
          THEN rl'.calls = rl.calls + 1 /\ rl'.last = now
          ELSE rl' = rl /\ now' = now /\ ~ret'.slept]_vars

\* C7 amended: the increase by 1 is over the value left by the lazy window
\* reset, which is 0 when this call restarts the window.
C7_GrantAddsOneAfterReset ==
    [][ret'.op = "permit" =>
          LET restarted == rl.start = NoTime \/ now - rl.start >= 3600
          IN  IF ret'.ok
              THEN /\ rl'.calls = (IF restarted THEN 0 ELSE rl.calls) + 1
                   /\ rl'.last = now
                   /\ rl'.start = (IF restarted THEN now ELSE rl.start)
              ELSE rl' = rl /\ now' = now /\ ~ret'.slept]_vars

\* C7 witness: a granted call that restarted a window which had calls in it.
C7_Witness ==
    /\ ret.op = "permit" /\ ret.ok
    /\ rl.calls = 1 /\ rl.start = rl.last /\ rl.start >= 3600
    /\ hist.hourGrants >= 2

(******************* claims about the gateway ******************************)
\* a cache that holds a value younger than ttl
HeldFresh(o, ttl) == o.held # <<>> /\ o.age # NoTime /\ o.age < ttl

\* C3: whenever the cache of a data kind is fresh at the time of the call,
\* the fetch of current conditions and the fetch of the forecast each return
\* the cached value without calling permit() and without a network request.
C3_FreshCacheNoFetch ==
    /\ ret.temp.called /\ HeldFresh(ret.temp, 300) =>
         ret.temp.permits = 0 /\ ret.temp.net = 0 /\ ret.temp.value = ret.temp.held
    /\ ret.fc.called /\ HeldFresh(ret.fc, 3600) =>
         ret.fc.permits = 0 /\ ret.fc.net = 0 /\ ret.fc.value = ret.fc.held

\* C4: if a stale forecast is held and every round of the forecast fetch ends
\* in a transport failure, the fetch returns the stale forecast, not none,
\* and the scene still holds it afterwards.
C4_StaleForecastKept ==
    (/\ ret.op = "day" /\ ret.fc.called
     /\ ret.fc.held # NoForecast /\ ret.fc.age >= 3600
     /\ ret.fc.transport = 3)
    => ret.fc.value = ret.fc.held /\ scene.cached_forecast = ret.fc.held

\* C5 as stated: a fetch during which permit() is refused performs no
\* back-off sleep and issues no network request in the course of that fetch,
\* whatever round the refusal occurs in.
C5_RefusedFetchIdle ==
    /\ ret.temp.called /\ ret.temp.refused => ret.temp.backoffs = 0 /\ ret.temp.net = 0
    /\ ret.fc.called /\ ret.fc.refused => ret.fc.backoffs = 0 /\ ret.fc.net = 0

\* C5 amended: the refused round and whatever follows it neither sleeps nor
\* requests; the fetch made one request and one back-off sleep for each round
\* before the refusal, and none at all when the first round is refused.
C5_RefusedRoundIdle ==
    /\ ret.temp.called /\ ret.temp.refused =>
          /\ ret.temp.net = ret.temp.permits - 1
          /\ ret.temp.backoffs = ret.temp.permits - 1
    /\ ret.fc.called /\ ret.fc.refused =>
          /\ ret.fc.net = ret.fc.permits - 1
          /\ ret.fc.backoffs = ret.fc.permits - 1

\* C5 witness: a forecast fetch refused in its second round.
C5_Witness ==
    ret.op = "forecast" /\ ret.fc.refused /\ ret.fc.permits = 2 /\ ret.fc.net = 1

\* C8: a cache is treated as fresh (no fetch is made for it) if and only if
\* it holds a value and now - fetchedAt < ttl, for the gateway's cache of
\* current conditions and for the temperature the scene holds alike: a cache
\* never set is not fresh, and a value aged ttl or more is not fresh. (The
\* scene's cache is looked at when it was never set or holds a value, on the
\* ticks that get as far as the temperature.)
C8_FreshIffValueAndYoung ==
    /\ ret.temp.called =>
         (ret.temp.permits = 0 /\ ret.temp.net = 0 <=> HeldFresh(ret.temp, 300))
    /\ ret.op = "day" /\ ret.tick.redraw /\ ~ret.fc.raised =>
         /\ ret.tick.tempAge = NoTime => ret.temp.called
         /\ ret.tick.tempHeld # NoVal /\ ret.tick.tempAge # NoTime =>
               (~ret.temp.called <=> ret.tick.tempAge < 300)

(******************* claims about the redraw decision **********************)
\* C9 as stated: the very first tick of a new scene reports 'redraw
\* required' for every combination of inputs.
C9_FirstTickRedraws == ret.op = "day" /\ ret.tick.first => ret.tick.redraw

\* C9 amended: the very first tick redraws exactly when its time is neither
\* night-start nor night-end and no flight data is present; otherwise it
\* draws nothing and leaves the redraw forced for a later tick. A redraw
\* records the hour at once and clears the forced redraw when the forecast
\* fetch has returned.
C9_FirstTickRedrawsUnlessDeferred ==
    ret.op = "day" /\ ret.tick.first =>
        /\ ret.tick.redraw <=>
              /\ ret.tick.at % 86400 \notin {NIGHT_START, NIGHT_END}
              /\ ret.tick.data = 0
        /\ ~ret.tick.redraw => scene.redraw_forecast /\ scene.last_hour = NoHour
        /\ ret.tick.redraw =>
              /\ ret.fc.raised \/ ~scene.redraw_forecast
              /\ scene.last_hour = (ret.tick.at % 86400) \div 3600

\* C9 witness: a first tick away from the night boundaries, without flight
\* data, that has redrawn.
C9_Witness ==
    /\ ret.op = "day" /\ ret.tick.first /\ ret.tick.redraw
    /\ ret.tick.data = 0 /\ ret.tick.at > 0 /\ scene.last_hour # NoHour

\* a tick at time t with n flights that gives no reason to redraw in the hour
\* last drawn
QuietTick(t, n) ==
    /\ (t % 86400) \div 3600 = scene.last_hour
    /\ t % 86400 \notin {NIGHT_START, NIGHT_END}
    /\ n = 0

\* C10 as stated: after a tick that redrew, every later tick in the hour of
\* lastObservedHour, not at night-start or night-end and with no data change,
\* reports 'no redraw' and leaves the redraw state and the held forecast
\* unchanged.
C10_SameHourNoRedraw ==
    [][ret'.op = "day" /\ hist'.ticks = hist.ticks + 1
         /\ QuietTick(now, ret'.tick.data)
       => ~ret'.tick.redraw /\ scene' = scene]_vars

\* C10 amended: the same, for the ticks before which no tick since the last
\* redraw fell on night-start or night-end or saw data (forcedNextTick is
\* false on entry).
C10_SameHourNoRedrawWhileIdle ==
    [][ret'.op = "day" /\ hist'.ticks = hist.ticks + 1
         /\ QuietTick(now, ret'.tick.data) /\ hist.clean
       => ~ret'.tick.redraw /\ scene' = scene]_vars

\* C10 witness: a quiet tick right after a redraw, which drew nothing.
C10_Witness ==
    /\ ret.op = "day" /\ ret.tick.cleanBefore /\ ~ret.tick.redraw
    /\ QuietTick(ret.tick.at, ret.tick.data)

(******************* claims about failures *********************************)
\* C11: when a successful forecast response lacks temperatureMax for one
\* day, the forecast fetch still succeeds: the forecast returned carries the
\* sentinel 0 as that day's maximum, every other day is returned as it came,
\* and the scene draws the forecast without an error.
C11_MissingMaxIsSentinel ==
    ret.op = "day" /\ ret.fc.fetched =>
        /\ Len(ret.fc.value) = Len(ret.fc.response)
        /\ \A i \in 1..Len(ret.fc.response) :
              ret.fc.value[i] =
                  IF ret.fc.response[i].values.temperatureMax = NoVal
                  THEN [ret.fc.response[i] EXCEPT !.values.temperatureMax = 0]
                  ELSE ret.fc.response[i]
        /\ ret.tick.raised => ret.temp.raised

\* C12: when the API key is missing from the configuration, no call of
\* currentConditions or forecast ever issues a network request; both behave
\* as if permit() were always refused and return the held cached value or
\* none.
C12_NoKeyNoRequest ==
    ~apiKey =>
        /\ ret.temp.called =>
              /\ ret.temp.net = 0
              /\ ret.temp.value = ret.temp.held \/ ret.temp.value = <<NoVal, NoVal>>
        /\ ret.fc.called =>
              /\ ret.fc.net = 0
              /\ ret.fc.value = ret.fc.held \/ ret.fc.value = NoForecast

\* C13: for every outcome of a fetch round (quota refusal, transport
\* failure, malformed payload such as a null data member, missing field),
\* currentConditions and forecast return normally, with a freshly fetched
\* value or with the value the cache held before the call (possibly none);
\* no failure escapes as an unhandled error.
C13_EveryFailureReturns ==
    /\ ret.temp.called =>
          /\ ~ret.temp.raised
          /\ \/ ret.temp.fetched
             \/ ret.temp.value = ret.temp.held
             \/ ret.temp.value = <<NoVal, NoVal>>
    /\ ret.fc.called =>
          /\ ~ret.fc.raised
          /\ \/ ret.fc.fetched
             \/ ret.fc.value = ret.fc.held
             \/ ret.fc.value = NoForecast

(******************* claims about the caches *******************************)
\* C14: in every reachable state, for the gateway's cache of current
\* conditions, the module's forecast cache and the temperature the scene
\* holds, a held value of none goes with a fetchedAt of none.
C14_NoValueNoTimestamp ==
    /\ tempCache.data = NoData => tempCache.at = NoTime
    /\ fcCache.data = NoForecast => fcCache.at = NoTime
    /\ scene.cached_current_temp = NoVal => scene.last_temp_fetch = NoTime

\* C15: callsInWindow is always between 0 and the quota (25), and it is
\* reset to 0 only by a permit() call made when no window exists yet or when
\* now - windowStart is at least one hour, which also sets windowStart to
\* now; the call's own slot is then counted from 0.
C15_CallsBoundedResetOnExpiry ==
    [][LET expired == rl.start = NoTime \/ now - rl.start >= 3600
       IN  /\ rl.calls \in 0..25 /\ rl'.calls \in 0..25
           /\ rl' # rl => ret'.op = "permit"
           /\ ret'.op = "permit" =>
                 IF expired
                 THEN rl'.start = now /\ rl'.calls = 1
                 ELSE rl'.start = rl.start /\ rl'.calls >= rl.calls]_vars

\* C15 witness: a window restarted an hour or more after the first one has
\* been filled up to the quota.
C15_Witness ==
    ret.op = "permit" /\ ret.ok /\ rl.calls = 25 /\ rl.start >= 3600

(******************* claims about the fetch rounds *************************)
\* C16: every network request, realtime or timelines, is issued only after
\* a permit() call of the same fetch round returned true, so a fetch never
\* issues more requests than it reserved slots; no fetch path reaches the
\* network without going through the rate limiter.
C16_RequestOnlyAfterGrant ==
    /\ ret.temp.net <= ret.temp.permits
    /\ ret.fc.net <= ret.fc.permits
    /\ \A i \in 1..Len(ret.temp.events) :
          ret.temp.events[i] = "request" => i > 1 /\ ret.temp.events[i - 1] = "grant"
    /\ \A i \in 1..Len(ret.fc.events) :
          ret.fc.events[i] = "request" => i > 1 /\ ret.fc.events[i - 1] = "grant"

\* the refusal is the last thing the fetch did
RefusalEnds(o) ==
    \A i \in 1..Len(o.events) : o.events[i] = "refuse" => i = Len(o.events)

WithinRounds(o, rounds) ==
    /\ o.net <= rounds /\ o.permits <= rounds /\ o.backoffs <= rounds - 1
    /\ \A i \in 1..Len(o.events) : o.events[i] = "backoff" => i < Len(o.events)

\* C18: every fetch terminates: a single currentConditions or forecast call
\* issues at most maxRetries network requests, reserves at most maxRetries
\* slots, sleeps a back-off only when a further round follows (at most
\* maxRetries - 1 sleeps), and then returns. The realtime fetch has 1 round,
\* the rate-limited forecast fetch 3, the module-level forecast fetch 1.
C18_FetchBounded ==
    /\ ret.temp.called => WithinRounds(ret.temp, 1)
    /\ ret.fc.called => WithinRounds(ret.fc, IF ret.op = "cachedForecast" THEN 1 ELSE 3)

\* C19: a fetch that does not complete successfully (quota refusal, or
\* failure on every round) leaves every cache unchanged: the gateway's cache
\* and the forecast and the temperature held by the scene have the same
\* value and fetchedAt after the call as before it.
C19_FailedFetchKeepsCaches ==
    [][ret'.op = "day" =>
          /\ ret'.fc.called /\ ~ret'.fc.fetched =>
                scene'.cached_forecast = scene.cached_forecast
          /\ ret'.temp.called /\ ret'.temp.permits > 0 /\ ~ret'.temp.fetched =>
                /\ tempCache' = tempCache
                /\ scene'.cached_current_temp = scene.cached_current_temp
                /\ scene'.last_temp_fetch = scene.last_temp_fetch]_vars

\* C20: whenever a forecast is taken for a redraw and the held forecast is
\* not fresh (absent, or fetched one hour or more ago), at least one fetch
\* round is attempted before a forecast is used; a forecast older than the
\* 1-hour TTL is never reused without a fetch attempt.
C20_StaleForecastRefetched ==
    (/\ ret.op = "day" /\ ret.tick.redraw
     /\ ret.tick.fcHeld = NoForecast \/ ret.tick.fcAge >= 3600)
    => ret.fc.called /\ ret.fc.permits >= 1

(******************* claims about the redraw trigger ***********************)
\* C21 as stated: whenever a redraw trigger occurs at a tick (the hour
\* differs from lastObservedHour, the time is night-start or night-end, or
\* data is present), 'redraw required' is reported on that tick or on the
\* tick right after it, after which forcedNextTick is false and
\* lastObservedHour is the hour of the reporting tick. (The state after the
\* report is looked at when the forecast fetch has returned.)
C21_RedrawThisOrNextTick ==
    ret.op = "day" =>
        /\ ret.tick.owed >= 1 => ret.tick.redraw
        /\ ret.tick.redraw /\ ~ret.fc.raised =>
              /\ ~scene.redraw_forecast
              /\ scene.last_hour = (ret.tick.at % 86400) \div 3600

\* C21 amended: a tick at night-start or night-end or with flight data
\* reports nothing, sets forcedNextTick and leaves lastObservedHour alone;
\* any other tick reports 'redraw required' exactly when the hour differs
\* from lastObservedHour or forcedNextTick is set, so a trigger is served by
\* the first tick that is neither. The reporting tick sets lastObservedHour
\* to its hour and clears forcedNextTick, unless the forecast fetch raised,
\* which leaves forcedNextTick as it was.
C21_RedrawOnFirstShownTick ==
    ret.op = "day" =>
        LET hour    == (ret.tick.at % 86400) \div 3600
            shown   == /\ ret.tick.at % 86400 \notin {NIGHT_START, NIGHT_END}
                       /\ ret.tick.data = 0
            pending == ret.tick.lastHour # hour \/ ret.tick.forced
        IN  /\ ret.tick.redraw <=> shown /\ pending
            /\ ~shown => /\ scene.redraw_forecast
                         /\ scene.last_hour = ret.tick.lastHour
            /\ shown /\ ~pending => /\ ~scene.redraw_forecast
                                    /\ scene.last_hour = ret.tick.lastHour
            /\ ret.tick.redraw =>
                  /\ scene.last_hour = hour
                  /\ scene.redraw_forecast <=> ret.fc.raised /\ ret.tick.forced
            /\ ret.tick.owed >= 1 => ret.tick.forced

\* C21 witness: two ticks in a row had a trigger and drew nothing, and the
\* third tick, the first without flight data and off the night boundaries,
\* has redrawn.
C21_Witness ==
    /\ ret.op = "day" /\ ret.tick.redraw /\ ret.tick.owed = 2
    /\ ~ret.fc.raised /\ ~scene.redraw_forecast

====
